---------------------------- MODULE Spec2Model ----------------------------
(***************************************************************************)
(* A model of the APRS-IS client library of src/aprs/classes.py: the       *)
(* Callsign and Frame text parsers and formatters, and the receive loop of *)
(* the TCP transport.                                                      *)
(*                                                                         *)
(* A Python 2 byte string (str) and a unicode string are both modelled as  *)
(* a sequence of one-character strings.  The bytes modelled are ASCII      *)
(* characters, which UTF-8 decodes and encodes to themselves, and the byte *)
(* 0xFF (written "xFF"), which no UTF-8 text contains.                     *)
(*                                                                         *)
(* The module holds four state machines over one list of variables:        *)
(*   SpecCallsign  Callsign(raw) and str() of the result;                  *)
(*   SpecFrame     Frame(frame), str() of the result, and Frame() of that; *)
(*   SpecTCP       TCP.receive(callback) over a stream read in chunks.     *)
(*   SpecNet       start(), send() and receive() called on a TCP or a UDP  *)
(*                 transport.                                              *)
(* Each leaves the variables of the others at their idle values.           *)
(***************************************************************************)
EXTENDS Integers, Sequences, FiniteSets, TLC

VARIABLES
    raw,          \* Callsign.__init__'s argument
    call,         \* the Callsign object's slots: callsign, ssid, digi
    cpc,          \* "new" | "built" | "raised" | "shown"
    crepr,        \* str(call), once computed
    frame,        \* Frame.frame: the line handed to Frame()
    source,       \* Frame.source
    destination,  \* Frame.destination
    path,         \* Frame.path
    text,         \* Frame.text
    fexc,         \* the exception Frame() let escape, or "none"
    fpc,          \* "new" | "parsed" | "raised" | "shown" | "reparsed"
    shown,        \* str(Frame), once computed
    origin,       \* the line the first Frame was built from
    first,        \* str() of that first Frame, once a second is built from it
    wire,         \* every byte the server sends on the connection, in order
    pos,          \* how many of them recv() has returned so far
    recvd_data,   \* TCP.receive's reassembly buffer
    lines,        \* the lines the for loop has still to go through
    delivered,    \* the Frames handed to the callback, in call order
    rpc,          \* "recv" | "lines" | "returned" | "raised"
    rexc,         \* the exception receive() let escape, or "none"
    kind,         \* the transport's class: "TCP" | "UDP"
    servers,      \* the server list given to TCP.__init__
    cycle,        \* how many entries next(self.servers) has handed out
    connected,    \* TCP._connected
    interface,    \* self.interface: "None" | "open" | "closed"
    tpc,          \* "idle" | "while" | "try" | "sleep" | "receive"
    step,         \* inside start()'s try: the step of TCP_start_steps to do next
    attempts,     \* the targets the running start() call has tried, in order
    done,         \* the steps done on the socket of the running attempt
    sent,         \* every message written to a socket, in order
    result,       \* the call that ended last and how it ended
    calls         \* how many calls have been made on the transport

callVars  == <<raw, call, cpc, crepr>>
frameVars == <<frame, source, destination, path, text, fexc, fpc, shown, origin,
              first>>
tcpVars   == <<wire, pos, recvd_data, lines, delivered, rpc, rexc>>
netVars   == <<kind, servers, cycle, connected, interface, tpc, step, attempts,
              done, sent, result, calls>>
vars      == <<callVars, frameVars, tcpVars, netVars>>

---------------------------------------------------------------------------
(* Bounds of the model.                                                    *)

MaxTokLen == 4     \* longest raw callsign token tried
MaxPath   == 2     \* longest digipeater path of a generated line
MaxRawLen == 3     \* longest unstructured line tried
MaxLines  == 2     \* most lines on the wire
MaxServers  == 2   \* longest server list
MaxAttempts == 3   \* most connection attempts of one start() call
MaxCalls    == 3   \* most calls made on one transport

---------------------------------------------------------------------------
(* Python's str operations, on sequences of characters.                    *)

Whitespace == {" ", "\t", "\n", "\r"}
Digits     == {"0", "1", "2", "3", "4", "5", "6", "7", "8", "9"}
Letters    == {"A", "B", "C", "D", "P", "R", "S", "W"}
InvalidByte == "xFF"

Contains(s, c) == \E i \in 1..Len(s) : s[i] = c

\* The least index of c in s; s contains c.
IndexOf(s, c) == CHOOSE i \in 1..Len(s) : s[i] = c /\ \A j \in 1..(i-1) : s[j] # c

RECURSIVE LStrip(_, _)
LStrip(s, cs) ==
    IF s # <<>> /\ Head(s) \in cs THEN LStrip(Tail(s), cs) ELSE s

RECURSIVE RStrip(_, _)
RStrip(s, cs) ==
    IF s # <<>> /\ s[Len(s)] \in cs THEN RStrip(SubSeq(s, 1, Len(s) - 1), cs) ELSE s

\* s.strip(cs); s.strip() is Strip(s, Whitespace).
Strip(s, cs) == RStrip(LStrip(s, cs), cs)

\* In the recursive definitions below, "CHOOSE v \in {e(x) : x \in {d}} : TRUE"
\* is e(d) with d evaluated once, where a LET would evaluate it at every use.

\* s.split(c) for a one-character separator: every piece, empty ones too.
RECURSIVE Split(_, _)
Split(s, c) ==
    IF ~Contains(s, c) THEN <<s>>
    ELSE CHOOSE v \in {<<SubSeq(s, 1, IndexOf(s, c) - 1)>> \o Split(rest, c) :
                           rest \in {SubSeq(s, IndexOf(s, c) + 1, Len(s))}} : TRUE

\* c.join(pieces)
RECURSIVE Join(_, _)
Join(pieces, c) ==
    IF pieces = <<>> THEN <<>>
    ELSE IF Len(pieces) = 1 THEN pieces[1]
    ELSE pieces[1] \o <<c>> \o Join(Tail(pieces), c)

HasCRLF(s) == \E i \in 1..(Len(s) - 1) : s[i] = "\r" /\ s[i+1] = "\n"

\* The least index at which "\r\n" starts in s; s contains it.
IndexOfCRLF(s) ==
    CHOOSE k \in 1..(Len(s) - 1) :
        /\ s[k] = "\r" /\ s[k+1] = "\n"
        /\ \A j \in 1..(k-1) : ~(s[j] = "\r" /\ s[j+1] = "\n")

EndsWithCRLF(s) == Len(s) >= 2 /\ s[Len(s) - 1] = "\r" /\ s[Len(s)] = "\n"

\* s.split('\r\n')
RECURSIVE SplitCRLF(_)
SplitCRLF(s) ==
    IF ~HasCRLF(s) THEN <<s>>
    ELSE CHOOSE v \in {<<SubSeq(s, 1, IndexOfCRLF(s) - 1)>> \o SplitCRLF(rest) :
                           rest \in {SubSeq(s, IndexOfCRLF(s) + 2, Len(s))}} : TRUE

DigitVal(c) ==
    CASE c = "0" -> 0 [] c = "1" -> 1 [] c = "2" -> 2 [] c = "3" -> 3
      [] c = "4" -> 4 [] c = "5" -> 5 [] c = "6" -> 6 [] c = "7" -> 7
      [] c = "8" -> 8 [] c = "9" -> 9

RECURSIVE DecimalVal(_)
DecimalVal(s) ==
    IF s = <<>> THEN 0
    ELSE 10 * DecimalVal(SubSeq(s, 1, Len(s) - 1)) + DigitVal(s[Len(s)])

\* int(s): surrounding whitespace and one sign are accepted, then one or more
\* digits; anything else is a ValueError (ok = FALSE).
PyInt(s) ==
    LET t      == Strip(s, Whitespace)
        signed == t # <<>> /\ Head(t) \in {"+", "-"}
        d      == IF signed THEN Tail(t) ELSE t
    IN  IF d # <<>> /\ \A i \in 1..Len(d) : d[i] \in Digits
        THEN [ok |-> TRUE,
              val |-> IF signed /\ Head(t) = "-" THEN 0 - DecimalVal(d) ELSE DecimalVal(d)]
        ELSE [ok |-> FALSE, val |-> 0]

\* bytes.decode('UTF-8'): ASCII bytes decode to themselves, a byte 0xFF raises
\* UnicodeDecodeError (ok = FALSE) before any character is produced.
Decode(bytes) ==
    IF \E i \in 1..Len(bytes) : bytes[i] = InvalidByte
    THEN [ok |-> FALSE, chars |-> <<>>]
    ELSE [ok |-> TRUE, chars |-> bytes]

---------------------------------------------------------------------------
(* Python values held in a Frame's slots: a str, or a Callsign object.     *)

PyStr(s) == [type |-> "str", value |-> s]

\* bool(v): a str is true when non-empty; a Callsign defines neither
\* __nonzero__ nor __len__, so every Callsign object is true.
Truthy(v) == IF v.type = "str" THEN v.value # <<>> ELSE TRUE

NoStr == <<"None">>

---------------------------------------------------------------------------
(* class Callsign                                                          *)

\* aprs.valid_callsign: a base of 1 to 6 alphanumeric characters.
valid_callsign(callsign) ==
    /\ Len(callsign) \in 1..6
    /\ \A i \in 1..Len(callsign) : callsign[i] \in (Letters \cup Digits)

\* if '*' in _callsign: the object and the token after lines 238-240.
Callsign_star(self, _callsign) ==
    IF Contains(_callsign, "*")
    THEN [obj |-> [self EXCEPT !.digi = TRUE], token |-> Strip(_callsign, {"*"})]
    ELSE [obj |-> self, token |-> _callsign]

\* _callsign, ssid = parts: unpacking anything but two pieces is a ValueError.
Callsign_unpack(self, parts) ==
    IF Len(parts) = 2
    THEN [obj |-> [self EXCEPT !.callsign = parts[1],
                               !.ssid = Strip(parts[2], Whitespace)],
          exc |-> "none"]
    ELSE [obj |-> self, exc |-> "ValueError"]

\* if '-' in _callsign: ..., then the two assignments to self.
Callsign_split(self, _callsign) ==
    IF Contains(_callsign, "-")
    THEN Callsign_unpack(self, Split(_callsign, "-"))
    ELSE [obj |-> [self EXCEPT !.callsign = _callsign,
                               !.ssid = Strip(<<"0">>, Whitespace)],
          exc |-> "none"]

\* Callsign.parse_text: the object's slots afterwards, and the exception raised.
Callsign_parse_text(self, callsign) ==
    LET starred == Callsign_star(self, Strip(callsign, Whitespace))
    IN  Callsign_split(starred.obj, starred.token)

\* Callsign.parse
Callsign_parse(self, callsign) ==
    IF ~valid_callsign(self.callsign)
    THEN Callsign_parse_text(self, callsign)
    ELSE [obj |-> self, exc |-> "none"]

\* Callsign.__init__
Callsign_init(callsign) ==
    Callsign_parse([type |-> "Callsign", callsign |-> <<>>, ssid |-> <<"0">>,
                    digi |-> FALSE], callsign)

\* A faulty variant of Callsign_repr_ssid: int(self.ssid) >= 0 for > 0.
Callsign_repr_ssid_nonneg(ssid) ==
    IF PyInt(ssid).ok THEN PyInt(ssid).val >= 0 ELSE TRUE

\* Whether __repr__ appends '-' and the SSID.
Callsign_repr_ssid(ssid) ==
    IF PyInt(ssid).ok THEN PyInt(ssid).val > 0
    ELSE TRUE    \* except ValueError: self.ssid != 0, a str against an int

\* Callsign.__repr__
Callsign_repr(self) ==
    LET call_repr == IF Callsign_repr_ssid(self.ssid)
                     THEN Join(<<self.callsign, self.ssid>>, "-")
                     ELSE self.callsign
    IN  IF self.digi THEN call_repr \o <<"*">> ELSE call_repr

\* str(v) of a slot's value
Str(v) == IF v.type = "str" THEN v.value ELSE Callsign_repr(v)

---------------------------------------------------------------------------
(* Idle values of the four groups of variables.                            *)

NoCall == [type |-> "Callsign", callsign |-> <<>>, ssid |-> <<"0">>, digi |-> FALSE]

CallIdle ==
    /\ raw = <<>> /\ call = NoCall /\ cpc = "idle" /\ crepr = NoStr

FrameIdle ==
    /\ frame = <<>> /\ source = PyStr(<<>>) /\ destination = PyStr(<<>>)
    /\ path = <<>> /\ text = <<>> /\ fexc = "none" /\ fpc = "idle"
    /\ shown = NoStr /\ origin = <<>> /\ first = NoStr

TcpIdle ==
    /\ wire = <<>> /\ pos = 0 /\ recvd_data = <<>> /\ lines = <<>>
    /\ delivered = <<>> /\ rpc = "idle" /\ rexc = "none"

NoResult == [op |-> "none", outcome |-> "none"]

NetIdle ==
    /\ kind = "none" /\ servers = <<>> /\ cycle = 0 /\ connected = FALSE
    /\ interface = "None" /\ tpc = "off" /\ step = 0 /\ attempts = <<>>
    /\ done = <<>> /\ sent = <<>> /\ result = NoResult /\ calls = 0

---------------------------------------------------------------------------
(* SpecCallsign: Callsign(raw), then str() of the object.                  *)

CallChars == {"A", "0", "5", "-", "*", " "}

RECURSIVE StringsUpTo(_, _)
StringsUpTo(chars, n) ==
    IF n = 0 THEN {<<>>}
    ELSE LET shorter == StringsUpTo(chars, n - 1)
         IN  shorter \cup {s \o <<c>> : s \in shorter, c \in chars}

InitCallsign ==
    /\ raw \in StringsUpTo(CallChars, MaxTokLen)
    /\ call = NoCall /\ cpc = "new" /\ crepr = NoStr
    /\ FrameIdle /\ TcpIdle /\ NetIdle

\* Callsign(raw)
CallsignNew ==
    /\ cpc = "new"
    /\ \E r \in {Callsign_init(raw)} :
           /\ call' = r.obj
           /\ cpc' = IF r.exc = "none" THEN "built" ELSE "raised"
    /\ UNCHANGED <<raw, crepr, frameVars, tcpVars, netVars>>

\* str(call)
CallsignStr ==
    /\ cpc = "built"
    /\ crepr' = Callsign_repr(call)
    /\ cpc' = "shown"
    /\ UNCHANGED <<raw, call, frameVars, tcpVars, netVars>>

NextCallsign == CallsignNew \/ CallsignStr

SpecCallsign == InitCallsign /\ [][NextCallsign]_vars

---------------------------------------------------------------------------
(* Claims about Callsign, checked under SpecCallsign.                      *)

Alnum == Letters \cup Digits

IsBase(b) == b # <<>> /\ \A i \in 1..Len(b) : b[i] \in Alnum

IsNumber(d) == d # <<>> /\ \A i \in 1..Len(d) : d[i] \in Digits

\* t without one trailing '*'
Unstarred(t) ==
    IF t # <<>> /\ t[Len(t)] = "*" THEN SubSeq(t, 1, Len(t) - 1) ELSE t

\* BASE or BASE-SSID with SSID a positive integer, optionally followed by '*'
TokenForm(t) ==
    LET b == Unstarred(t)
    IN  \/ IsBase(b)
        \/ \E i \in 1..Len(b) :
              /\ b[i] = "-"
              /\ IsBase(SubSeq(b, 1, i - 1))
              /\ IsNumber(SubSeq(b, i + 1, Len(b)))
              /\ DecimalVal(SubSeq(b, i + 1, Len(b))) > 0

\* C7: a token BASE or BASE-SSID (SSID a positive integer), with or without
\* a trailing '*', parses without an exception and formats back to itself;
\* the text of any parsed Callsign is its base, then '-' and the SSID unless
\* the SSID is a number of value 0, then '*' exactly when digi is set.
C7_CallsignRoundTrip ==
    /\ TokenForm(raw) => cpc # "raised"
    /\ (cpc = "shown" /\ TokenForm(raw)) => crepr = raw
    /\ cpc = "shown" =>
          crepr = call.callsign
                  \o (IF IsNumber(call.ssid) /\ DecimalVal(call.ssid) = 0
                      THEN <<>> ELSE <<"-">> \o call.ssid)
                  \o (IF call.digi THEN <<"*">> ELSE <<>>)

C7_Witness ==
    /\ cpc = "shown" /\ raw = <<"A", "-", "5", "*">>
    /\ call.callsign = <<"A">> /\ call.ssid = <<"5">> /\ call.digi

\* C8: Callsign(raw) never raises; when raw holds a '-' the base is what
\* precedes the first '-' (of the trimmed token, its '*' marks removed), and
\* when it holds none the SSID is "0".
C8_SplitsOnFirstDash ==
    LET t == Strip(Strip(raw, Whitespace), {"*"})
    IN  /\ cpc # "raised"
        /\ cpc \in {"built", "shown"} =>
              IF Contains(t, "-")
              THEN call.callsign = SubSeq(t, 1, IndexOf(t, "-") - 1)
              ELSE call.ssid = <<"0">>

\* t ends with '*'
EndsWithStar(t) == t # <<>> /\ t[Len(t)] = "*"

\* C18: Callsign(raw) sets digi exactly when the whitespace-trimmed token
\* ends with '*', and then removes that one trailing '*' and nothing else:
\* base and SSID are those of the token without it.
C18_DigiIffTrailingStar ==
    LET t == Strip(raw, Whitespace)
    IN  cpc \in {"built", "shown"} =>
            /\ call.digi <=> EndsWithStar(t)
            /\ (~Contains(Unstarred(t), "-")) => call.callsign = Unstarred(t)

---------------------------------------------------------------------------
(* class Frame                                                             *)

\* A faulty variant of Frame_path_tokens: the slice [1:] left out.
Frame_path_tokens_all(frame_so_far) == Split(frame_so_far, ",")

\* The path tokens of a header that holds a comma: frame_so_far.split(',')[1:]
Frame_path_tokens(frame_so_far) == Tail(Split(frame_so_far, ","))

\* for path in ...: self.path.append(Callsign(path)); stops at the first
\* Callsign() that raises, with the entries appended so far kept.
RECURSIVE Frame_append_path(_, _)
Frame_append_path(self, tokens) ==
    IF tokens = <<>> THEN [obj |-> self, exc |-> "none"]
    ELSE CHOOSE v \in
             {IF c.exc # "none" THEN [obj |-> self, exc |-> c.exc]
              ELSE Frame_append_path(
                       [self EXCEPT !.path = Append(self.path, c.obj)], Tail(tokens)) :
                  c \in {Callsign_init(Head(tokens))}} : TRUE

\* self.destination = Callsign(...) with result d, then the path tokens.
Frame_destination(self, frame_so_far, d, tokens) ==
    IF d.exc # "none" THEN [obj |-> self, exc |-> d.exc]
    ELSE Frame_append_path([self EXCEPT !.destination = d.obj, !.path = <<>>], tokens)

\* What a branch that calls Callsign() leaves: frame_so_far is reset to ''
\* unless the call raised.
Frame_reset(r, frame_so_far) ==
    [obj |-> r.obj, exc |-> r.exc,
     buf |-> IF r.exc = "none" THEN <<>> ELSE frame_so_far]

\* One round of parse_text's for loop: the ':' branch, the path still empty.
Frame_header(self, frame_so_far) ==
    IF Contains(frame_so_far, ",")
    THEN Frame_reset(
             Frame_destination(self, frame_so_far,
                               Callsign_init(Split(frame_so_far, ",")[1]),
                               Frame_path_tokens(frame_so_far)),
             frame_so_far)
    ELSE IF ~Truthy(self.destination)
    THEN Frame_reset(Frame_destination(self, frame_so_far,
                                       Callsign_init(frame_so_far), <<>>),
                     frame_so_far)
    ELSE [obj |-> self, exc |-> "none", buf |-> Append(frame_so_far, ":")]

\* self.source = Callsign(frame_so_far), with result c.
Frame_source(self, c) ==
    IF c.exc # "none" THEN [obj |-> self, exc |-> c.exc]
    ELSE [obj |-> [self EXCEPT !.source = c.obj], exc |-> "none"]

\* One round of parse_text's for loop, on character char.
Frame_char(self, frame_so_far, char) ==
    IF char = ">" /\ ~Truthy(self.source)
    THEN Frame_reset(Frame_source(self, Callsign_init(frame_so_far)), frame_so_far)
    ELSE IF char = ":"
    THEN IF self.path = <<>>
         THEN Frame_header(self, frame_so_far)
         ELSE [obj |-> self, exc |-> "none", buf |-> Append(frame_so_far, char)]
    ELSE [obj |-> self, exc |-> "none", buf |-> Append(frame_so_far, char)]

\* parse_text's for loop over the characters left; an exception ends it.
RECURSIVE Frame_scan(_, _, _)
Frame_scan(self, frame_so_far, chars) ==
    IF chars = <<>> THEN [obj |-> self, buf |-> frame_so_far, exc |-> "none"]
    ELSE CHOOSE v \in
             {IF r.exc # "none" THEN r ELSE Frame_scan(r.obj, r.buf, Tail(chars)) :
                  r \in {Frame_char(self, frame_so_far, Head(chars))}} : TRUE

\* self.text = frame_so_far.encode('UTF-8'), unless the loop raised.
Frame_text(r) ==
    IF r.exc # "none" THEN [obj |-> r.obj, exc |-> r.exc]
    ELSE [obj |-> [r.obj EXCEPT !.text = r.buf], exc |-> "none"]

\* Frame.parse_text
Frame_parse_text(self) ==
    IF ~Decode(self.frame).ok THEN [obj |-> self, exc |-> "UnicodeDecodeError"]
    ELSE Frame_text(Frame_scan(self, <<>>, Decode(self.frame).chars))

\* A faulty variant of Frame_except: no except clause.
Frame_except_none(r) == r

\* try: ... except UnicodeDecodeError: pass
Frame_except(r) ==
    IF r.exc = "UnicodeDecodeError" THEN [obj |-> r.obj, exc |-> "none"] ELSE r

\* Frame.parse, called with no argument
Frame_parse(self) ==
    IF ~Truthy(self.source) \/ ~Truthy(self.destination)
    THEN Frame_except(Frame_parse_text(self))
    ELSE [obj |-> self, exc |-> "none"]

\* Frame.__init__, called with a frame
Frame_init(bytes) ==
    Frame_parse([frame |-> bytes, source |-> PyStr(<<>>),
                 destination |-> PyStr(<<"A", "P", "R", "S">>),
                 path |-> <<>>, text |-> <<>>])

\* Frame.__repr__
Frame_repr(self) ==
    LET full_path == <<Str(self.destination)>>
                     \o [i \in 1..Len(self.path) |-> Str(self.path[i])]
    IN  Str(self.source) \o <<">">> \o Join(full_path, ",") \o <<":">> \o self.text

---------------------------------------------------------------------------
(* SpecFrame: Frame(frame), str() of it, Frame() of that text, str() again. *)

SourceTokens == {<<"S">>, <<"S", "-", "9">>, <<"R", "*">>, <<"S", "-", "1", "-", "2">>}
DestTokens   == {<<"D">>, <<"B", "-", "1">>}
PathTokens   == {<<"W", "-", "1">>, <<"P", "*">>, <<"W", "-", "1", "-", "1">>}
Texts        == {<<>>, <<"x">>, <<"x", ":", "y">>, <<">", ",">>, <<"x", " ">>}
RawBytes     == {"S", ">", ":", ",", "-", InvalidByte}

RECURSIVE SeqsUpTo(_, _)
SeqsUpTo(S, n) ==
    IF n = 0 THEN {<<>>}
    ELSE LET shorter == SeqsUpTo(S, n - 1)
         IN  shorter \cup {Append(q, x) : q \in shorter, x \in S}

\* SOURCE>DEST[,PATH...]:TEXT
GeneratedLines ==
    {s \o <<">">> \o Join(<<d>> \o p, ",") \o <<":">> \o t :
        s \in SourceTokens, d \in DestTokens,
        p \in SeqsUpTo(PathTokens, MaxPath), t \in Texts}

InitFrame ==
    /\ frame \in GeneratedLines \cup StringsUpTo(RawBytes, MaxRawLen)
    /\ origin = frame
    /\ source = PyStr(<<>>) /\ destination = PyStr(<<>>) /\ path = <<>> /\ text = <<>>
    /\ fexc = "none" /\ fpc = "new" /\ shown = NoStr /\ first = NoStr
    /\ CallIdle /\ TcpIdle /\ NetIdle

\* Frame(frame)
FrameNew ==
    /\ fpc = "new"
    /\ \E r \in {Frame_init(frame)} :
           /\ source' = r.obj.source
           /\ destination' = r.obj.destination
           /\ path' = r.obj.path
           /\ text' = r.obj.text
           /\ fexc' = r.exc
           /\ fpc' = IF r.exc = "none" THEN "parsed" ELSE "raised"
    /\ UNCHANGED <<frame, shown, origin, first, callVars, tcpVars, netVars>>

\* str(f)
FrameStr ==
    /\ fpc = "parsed"
    /\ shown' = Frame_repr([frame |-> frame, source |-> source,
                            destination |-> destination, path |-> path, text |-> text])
    /\ fpc' = "shown"
    /\ UNCHANGED <<frame, source, destination, path, text, fexc, origin, first,
                   callVars, tcpVars, netVars>>

\* Frame(str(f)): a second Frame, built from the text of the first
FrameOfStr ==
    /\ fpc = "shown" /\ first = NoStr
    /\ first' = shown
    /\ frame' = shown
    /\ shown' = NoStr
    /\ \E r \in {Frame_init(shown)} :
           /\ source' = r.obj.source
           /\ destination' = r.obj.destination
           /\ path' = r.obj.path
           /\ text' = r.obj.text
           /\ fexc' = r.exc
           /\ fpc' = IF r.exc = "none" THEN "parsed" ELSE "raised"
    /\ UNCHANGED <<origin, callVars, tcpVars, netVars>>

\* f.parse(): parse() called again on the Frame, with no argument
FrameReparse ==
    /\ fpc = "parsed"
    /\ \E r \in {Frame_parse([frame |-> frame, source |-> source,
                               destination |-> destination, path |-> path,
                               text |-> text])} :
           /\ source' = r.obj.source
           /\ destination' = r.obj.destination
           /\ path' = r.obj.path
           /\ text' = r.obj.text
           /\ fexc' = r.exc
           /\ fpc' = IF r.exc = "none" THEN "reparsed" ELSE "raised"
    /\ UNCHANGED <<frame, shown, origin, first, callVars, tcpVars, netVars>>

NextFrame == FrameNew \/ FrameStr \/ FrameOfStr \/ FrameReparse

SpecFrame == InitFrame /\ [][NextFrame]_vars

---------------------------------------------------------------------------
(* Claims about Frame, checked under SpecFrame.                            *)
(*                                                                         *)
(* A line is read as SOURCE>HEADER:TEXT: SOURCE is what precedes the first *)
(* '>', HEADER what lies between it and the first ':' after it, TEXT the   *)
(* rest.  HEADER is DEST or DEST,P1,...,Pn.                                *)

SourceOf(line) == SubSeq(line, 1, IndexOf(line, ">") - 1)

AfterSource(line) == SubSeq(line, IndexOf(line, ">") + 1, Len(line))

HeaderOf(line) == SubSeq(AfterSource(line), 1, IndexOf(AfterSource(line), ":") - 1)

TextOf(line) ==
    SubSeq(AfterSource(line), IndexOf(AfterSource(line), ":") + 1, Len(AfterSource(line)))

\* BASE or BASE-SSID with SSID a number, optionally followed by '*'
ValidToken(t) ==
    LET b == Unstarred(t)
    IN  \/ IsBase(b)
        \/ \E i \in 1..Len(b) :
              /\ b[i] = "-"
              /\ IsBase(SubSeq(b, 1, i - 1))
              /\ IsNumber(SubSeq(b, i + 1, Len(b)))

WellFormedLine(line) ==
    /\ Contains(line, ">")
    /\ Contains(AfterSource(line), ":")
    /\ ValidToken(SourceOf(line))
    /\ \A i \in 1..Len(Split(HeaderOf(line), ",")) :
           ValidToken(Split(HeaderOf(line), ",")[i])

HasPath(line) == Contains(HeaderOf(line), ",")

\* C1: for a Frame f parsed from a well-formed line, the text of
\* Frame(str(f)) is str(f).
C1_FrameRoundTrip ==
    (fpc = "shown" /\ first # NoStr /\ WellFormedLine(origin)) => shown = first

\* C2: parsing a well-formed line SOURCE>DEST:TEXT, DEST without a comma,
\* gives a destination whose text is that of Callsign(DEST), an empty path and
\* text TEXT.
C2_FrameWithoutPath ==
    (fpc \in {"parsed", "shown"} /\ WellFormedLine(frame) /\ ~HasPath(frame)) =>
        /\ Str(destination) = Callsign_repr(Callsign_init(HeaderOf(frame)).obj)
        /\ path = <<>>
        /\ text = TextOf(frame)

\* C3: parsing a well-formed line SOURCE>DEST,P1,...,Pn:TEXT with n >= 1
\* does not raise and gives source Callsign(SOURCE), destination
\* Callsign(DEST), path Callsign(P1), ..., Callsign(Pn) in that order and of
\* length n, and text TEXT.
C3_FrameWithPath ==
    (WellFormedLine(frame) /\ HasPath(frame)) =>
        /\ fpc # "raised"
        /\ fpc \in {"parsed", "shown"} =>
              LET tokens == Split(HeaderOf(frame), ",")
              IN  /\ source = Callsign_init(SourceOf(frame)).obj
                  /\ destination = Callsign_init(tokens[1]).obj
                  /\ Len(path) = Len(tokens) - 1
                  /\ \A i \in 1..Len(path) : path[i] = Callsign_init(tokens[i + 1]).obj
                  /\ text = TextOf(frame)

C3_Witness ==
    /\ fpc = "parsed"
    /\ frame = <<"S", "-", "9", ">", "D", ",", "W", "-", "1", ",", "P", "*", ":",
                 "x", ":", "y">>
    /\ Len(path) = 2 /\ path[1].ssid = <<"1">> /\ path[2].digi
    /\ source.ssid = <<"9">> /\ text = <<"x", ":", "y">>

\* C4: for a well-formed line, with or without a path, the parsed text is
\* what follows the first ':' after the first '>'.
C4_ColonInPayload ==
    (fpc \in {"parsed", "shown"} /\ WellFormedLine(frame)) => text = TextOf(frame)

\* C5: Frame(line) lets no exception escape, whatever the line.
C5_FrameNeverRaises == fpc # "raised"

\* C6: Frame(line) of a line that does not decode as UTF-8 lets no exception
\* escape and leaves source '', destination 'APRS', an empty path and text ''.
C6_Undecodable ==
    (fpc # "new" /\ Contains(frame, InvalidByte)) =>
        /\ fpc \in {"parsed", "shown", "reparsed"} /\ fexc = "none"
        /\ source = PyStr(<<>>)
        /\ destination = PyStr(<<"A", "P", "R", "S">>)
        /\ path = <<>>
        /\ text = <<>>

C6_Witness ==
    /\ fpc = "parsed" /\ frame = <<"S", ">", InvalidByte>>
    /\ source = PyStr(<<>>) /\ text = <<>>

\* C19: parse() called a second time on a Frame built from a line leaves
\* source, destination, path and text as the first parse left them.
C19_ReparseChangesNothing ==
    fpc = "reparsed" =>
        /\ source = Frame_init(frame).obj.source
        /\ destination = Frame_init(frame).obj.destination
        /\ path = Frame_init(frame).obj.path
        /\ text = Frame_init(frame).obj.text

---------------------------------------------------------------------------
(* class TCP: receive                                                      *)

\* A faulty variant of TCP_split: lines.pop(-1) left out, the buffer emptied.
TCP_split_nopop(buffer) ==
    IF EndsWithCRLF(buffer)
    THEN [lines |-> SplitCRLF(Strip(buffer, Whitespace)), rest |-> <<>>]
    ELSE [lines |-> SplitCRLF(buffer), rest |-> <<>>]

\* Lines 342-347: the complete lines of the buffer, and what stays in it.
TCP_split(buffer) ==
    IF EndsWithCRLF(buffer)
    THEN [lines |-> SplitCRLF(Strip(buffer, Whitespace)), rest |-> <<>>]
    ELSE [lines |-> SubSeq(SplitCRLF(buffer), 1, Len(SplitCRLF(buffer)) - 1),
          rest  |-> SplitCRLF(buffer)[Len(SplitCRLF(buffer))]]

\* line.startswith('#')
TCP_is_comment(line) == line # <<>> /\ line[1] = "#"

---------------------------------------------------------------------------
(* SpecTCP: receive(callback=p) on a connected transport.  The server      *)
(* sends wire; each recv() returns one or more of the bytes not yet read   *)
(* (every modelled wire is shorter than aprs.RECV_BUFFER), nothing once    *)
(* the server has closed after the last byte, or fails with socket.error.  *)
(* The callback p of src/aprs.py prints its argument and returns.          *)

WireLines ==
    {<<"S", ">", "D", ",", "P", ":", "x">>,
     <<"S", ">", "D", ",", "P", ":", "x", " ">>,
     <<"S", ">", "D", ":", "y">>,
     <<"S", "-", "1", "-", "2", ">", "D", ":", "x">>,
     <<"#", "c">>}

Partials == {<<>>, <<"S", ">">>}

RECURSIVE Terminated(_)
Terminated(ls) ==
    IF ls = <<>> THEN <<>> ELSE Head(ls) \o <<"\r", "\n">> \o Terminated(Tail(ls))

Wires == {Terminated(ls) \o part : ls \in SeqsUpTo(WireLines, MaxLines), part \in Partials}

InitTCP ==
    /\ wire \in Wires
    /\ pos = 0 /\ recvd_data = <<>> /\ lines = <<>> /\ delivered = <<>>
    /\ rpc = "recv" /\ rexc = "none"
    /\ CallIdle /\ FrameIdle /\ NetIdle

\* recv() returns n bytes; the buffer is split into lines.
Recv ==
    /\ rpc = "recv"
    /\ \E n \in 1..(Len(wire) - pos) :
          \E r \in {TCP_split(recvd_data \o SubSeq(wire, pos + 1, pos + n))} :
              /\ pos' = pos + n
              /\ lines' = r.lines
              /\ recvd_data' = r.rest
              /\ rpc' = IF r.lines = <<>> THEN "recv" ELSE "lines"
    /\ UNCHANGED <<wire, delivered, rexc, callVars, frameVars, netVars>>

\* recv() returns '' (the server closed): break, and receive() returns.
RecvClosed ==
    /\ rpc = "recv" /\ pos = Len(wire)
    /\ rpc' = "returned"
    /\ UNCHANGED <<wire, pos, recvd_data, lines, delivered, rexc, callVars, frameVars, netVars>>

\* A faulty variant of RecvError: the error is logged and the loop goes on.
RecvError_swallowed ==
    /\ rpc = "recv"
    /\ rpc' = "recv" /\ rexc' = "socket.error"
    /\ UNCHANGED <<wire, pos, recvd_data, lines, delivered, callVars, frameVars, netVars>>

\* recv() raises socket.error: logged and raised again.
RecvError ==
    /\ rpc = "recv"
    /\ rpc' = "raised" /\ rexc' = "socket.error"
    /\ UNCHANGED <<wire, pos, recvd_data, lines, delivered, callVars, frameVars, netVars>>

\* What follows one round of the for loop.
AfterLine ==
    /\ lines' = Tail(lines)
    /\ rpc' = IF Tail(lines) = <<>> THEN "recv" ELSE "lines"

\* for line in lines: a line that starts with '#' is only logged.
LineComment ==
    /\ rpc = "lines" /\ TCP_is_comment(Head(lines))
    /\ AfterLine
    /\ UNCHANGED <<wire, pos, recvd_data, delivered, rexc, callVars, frameVars, netVars>>

\* for line in lines: callback(Frame(line)); the call returns within the step.
LineFrame ==
    /\ rpc = "lines" /\ ~TCP_is_comment(Head(lines))
    /\ \E f \in {Frame_init(Head(lines))} :
          /\ f.exc = "none"
          /\ delivered' = Append(delivered, f.obj)
    /\ AfterLine
    /\ UNCHANGED <<wire, pos, recvd_data, rexc, callVars, frameVars, netVars>>

\* for line in lines: Frame(line) raises; nothing in receive() catches it.
LineRaise ==
    /\ rpc = "lines" /\ ~TCP_is_comment(Head(lines))
    /\ \E f \in {Frame_init(Head(lines))} :
          /\ f.exc # "none"
          /\ rexc' = f.exc
    /\ rpc' = "raised" /\ lines' = <<>>
    /\ UNCHANGED <<wire, pos, recvd_data, delivered, callVars, frameVars, netVars>>

NextTCP ==
    Recv \/ RecvClosed \/ RecvError \/ LineComment \/ LineFrame \/ LineRaise

SpecTCP == InitTCP /\ [][NextTCP]_vars

---------------------------------------------------------------------------
(* Claims about TCP.receive, checked under SpecTCP.                        *)

\* The lines of the wire whose CRLF has been sent, in order.
CompleteLines(w) == SubSeq(SplitCRLF(w), 1, Len(SplitCRLF(w)) - 1)

\* receive() has read the whole wire, is not inside its for loop, and no
\* socket error has ended it.
AllRead == pos = Len(wire) /\ lines = <<>> /\ rexc # "socket.error"

\* C9: when the wire consists of well-formed frame lines, each followed by
\* CRLF, then however recv() cut it, once it is all read the callback has been
\* given Frame(line) for each line, once each and in wire order, and the
\* buffer holds what follows the last CRLF.
C9_ReassemblyAnyChunking ==
    (AllRead /\ \A i \in 1..Len(CompleteLines(wire)) :
                    WellFormedLine(CompleteLines(wire)[i])) =>
        /\ delivered = [i \in 1..Len(CompleteLines(wire)) |->
                            Frame_init(CompleteLines(wire)[i]).obj]
        /\ recvd_data = SplitCRLF(wire)[Len(SplitCRLF(wire))]

\* C10: no line that starts with '#' is given to the callback, and once the
\* whole wire is read every other complete line has been given to it once.
C10_PerLineDispatch ==
    /\ \A i \in 1..Len(delivered) : ~TCP_is_comment(delivered[i].frame)
    /\ AllRead =>
          Len(delivered) = Cardinality({i \in 1..Len(CompleteLines(wire)) :
                                            ~TCP_is_comment(CompleteLines(wire)[i])})

FrameLines(w) == SelectSeq(CompleteLines(w), LAMBDA l : ~TCP_is_comment(l))

\* C20: the callback is only ever given complete lines of the wire, in wire
\* order (each as sent or with its outer whitespace trimmed), never the bytes
\* that follow the last CRLF; when receive() returns after the server
\* closed, those bytes are still in the buffer.
C20_PartialNeverDispatched ==
    /\ Len(delivered) <= Len(FrameLines(wire))
    /\ \A i \in 1..Len(delivered) :
           delivered[i].frame \in {FrameLines(wire)[i],
                                   Strip(FrameLines(wire)[i], Whitespace)}
    /\ rpc = "returned" => recvd_data = SplitCRLF(wire)[Len(SplitCRLF(wire))]

C20_Witness ==
    /\ rpc = "returned" /\ recvd_data = <<"S", ">">>
    /\ Len(delivered) = 2 /\ pos = Len(wire)

---------------------------------------------------------------------------
(* classes APRS, TCP and UDP: construction, start, send                    *)

User       == <<"N">>
Password   == <<"-", "1">>
VersionStr == <<"Python APRS Module v", "GIT">>

\* APRS.__init__: self._auth
APRS_auth == Join(<<<<"user">>, User, <<"pass">>, Password, <<"vers">>, VersionStr>>, " ")

\* TCP.__init__: self._full_auth, with the default filter 'p/' + user
TCP_full_auth == Join(<<APRS_auth, <<"filter">>, Join(<<<<"p">>, User>>, "/")>>, " ")

\* Lines 270-275: server and port of an entry of the server list; the value
\* of aprs.APRSIS_FILTER_PORT is kept symbolic.
TCP_target(entry) ==
    IF Contains(entry, ":")
    THEN [server |-> Split(entry, ":")[1], default_port |-> FALSE,
          port |-> PyInt(Split(entry, ":")[2]).val]
    ELSE [server |-> entry, default_port |-> TRUE, port |-> 0]

\* A faulty variant of TCP_next: the cycle never advances.
TCP_next_first(list, k) == list[1]

\* next(self.servers) of itertools.cycle(servers), after k earlier calls
TCP_next(list, k) == list[(k % Len(list)) + 1]

\* A faulty variant of TCP_start_steps: connected before the acknowledgment.
TCP_start_steps_early ==
    <<"getaddrinfo", "socket", "connect", "recv", "sendall", "connected", "recv">>

\* Lines 278-302: the statements of start()'s try block, in order.
TCP_start_steps ==
    <<"getaddrinfo", "socket", "connect", "recv", "sendall", "recv", "connected">>

\* Line 296: what sendall() is given
TCP_login == TCP_full_auth \o <<"\n", "\r">>

\* Line 317: "%s\n\r" % frame
TCP_send_data(f) == f \o <<"\n", "\r">>

\* Line 388: "\n".join([self._auth, str(frame)])
UDP_content(f) == Join(<<APRS_auth, f>>, "\n")

---------------------------------------------------------------------------
(* SpecNet: a transport of class TCP or UDP, just constructed, and up to   *)
(* MaxCalls calls of start(), send(frame) and receive() on it, one at a    *)
(* time.  Every socket call of the code either succeeds or raises          *)
(* socket.error.  Of receive() on a TCP transport only the ways it ends    *)
(* are modelled here; its dispatch of lines is SpecTCP's.                  *)

ServerEntries == {<<"a">>, <<"b", ":", "7">>}
SendFrames    == {<<"S", ">", "D", ":", "x">>}

InitNet ==
    /\ kind \in {"TCP", "UDP"}
    /\ servers \in SeqsUpTo(ServerEntries, MaxServers) \ {<<>>}
    /\ kind = "UDP" => Len(servers) = 1
    /\ cycle = 0 /\ connected = FALSE /\ interface = "None"
    /\ tpc = "idle" /\ step = 0 /\ attempts = <<>> /\ done = <<>>
    /\ sent = <<>> /\ result = NoResult /\ calls = 0
    /\ CallIdle /\ FrameIdle /\ TcpIdle

\* A call ends: what it leaves in result.
Ends(op, outcome) ==
    /\ result' = [op |-> op, outcome |-> outcome]
    /\ tpc' = "idle"

\* a.start() on a TCP transport is called.
TcpStartCall ==
    /\ kind = "TCP" /\ tpc = "idle" /\ calls < MaxCalls
    /\ calls' = calls + 1
    /\ tpc' = "while" /\ attempts' = <<>>
    /\ UNCHANGED <<kind, servers, cycle, connected, interface, step, done, sent,
                   result, callVars, frameVars, tcpVars>>

\* while not self._connected: the test fails and start() returns.
TcpStartReturn ==
    /\ tpc = "while" /\ connected
    /\ Ends("start", "returned")
    /\ UNCHANGED <<kind, servers, cycle, connected, interface, step, attempts,
                   done, sent, calls, callVars, frameVars, tcpVars>>

\* while not self._connected: the next entry of the cycle is taken.
TcpStartNext ==
    /\ tpc = "while" /\ ~connected
    /\ cycle' = cycle + 1
    /\ attempts' = Append(attempts, TCP_target(TCP_next(servers, cycle)))
    /\ tpc' = "try" /\ step' = 1 /\ done' = <<>>
    /\ UNCHANGED <<kind, servers, connected, interface, sent, result, calls,
                   callVars, frameVars, tcpVars>>

\* One statement of the try block succeeds.
TcpStartStep ==
    /\ tpc = "try"
    /\ \E op \in {TCP_start_steps[step]} :
          /\ done' = Append(done, op)
          /\ interface' = IF op = "socket" THEN "open" ELSE interface
          /\ sent' = IF op = "sendall" THEN Append(sent, TCP_login) ELSE sent
          /\ connected' = IF op = "connected" THEN TRUE ELSE connected
    /\ IF step = Len(TCP_start_steps)
       THEN tpc' = "while" /\ step' = 0
       ELSE tpc' = "try" /\ step' = step + 1
    /\ UNCHANGED <<kind, servers, cycle, attempts, result, calls,
                   callVars, frameVars, tcpVars>>

\* One socket call of the try block raises socket.error: except, log.
TcpStartFail ==
    /\ tpc = "try" /\ TCP_start_steps[step] # "connected"
    /\ Len(attempts) < MaxAttempts
    /\ tpc' = "sleep" /\ step' = 0
    /\ UNCHANGED <<kind, servers, cycle, connected, interface, attempts, done,
                   sent, result, calls, callVars, frameVars, tcpVars>>

\* time.sleep(1), then the while test again.
TcpSleep ==
    /\ tpc = "sleep"
    /\ tpc' = "while"
    /\ UNCHANGED <<kind, servers, cycle, connected, interface, step, attempts,
                   done, sent, result, calls, callVars, frameVars, tcpVars>>

\* send(frame) or TCP's receive() before any start(): self.interface is None.
NoSocket ==
    /\ tpc = "idle" /\ calls < MaxCalls /\ interface = "None"
    /\ calls' = calls + 1
    /\ \E op \in (IF kind = "TCP" THEN {"send", "receive"} ELSE {"send"}) :
          Ends(op, "AttributeError")
    /\ UNCHANGED <<kind, servers, cycle, connected, interface, step, attempts,
                   done, sent, callVars, frameVars, tcpVars>>

\* send(frame): the data is written.
Send ==
    /\ tpc = "idle" /\ calls < MaxCalls /\ interface = "open"
    /\ calls' = calls + 1
    /\ \E f \in SendFrames :
          sent' = Append(sent, IF kind = "TCP" THEN TCP_send_data(f)
                               ELSE UDP_content(f))
    /\ Ends("send", "returned")
    /\ UNCHANGED <<kind, servers, cycle, connected, interface, step, attempts,
                   done, callVars, frameVars, tcpVars>>

\* send(frame): the socket call raises socket.error, which send() lets through.
SendFail ==
    /\ tpc = "idle" /\ calls < MaxCalls /\ interface = "open"
    /\ calls' = calls + 1
    /\ Ends("send", "socket.error")
    /\ UNCHANGED <<kind, servers, cycle, connected, interface, step, attempts,
                   done, sent, callVars, frameVars, tcpVars>>

\* a.receive(callback) on a TCP transport is called.
TcpReceiveCall ==
    /\ kind = "TCP" /\ tpc = "idle" /\ calls < MaxCalls /\ interface = "open"
    /\ calls' = calls + 1
    /\ tpc' = "receive"
    /\ UNCHANGED <<kind, servers, cycle, connected, interface, step, attempts,
                   done, sent, result, callVars, frameVars, tcpVars>>

\* recv() returns '': break, and receive() returns.
TcpReceiveClosed ==
    /\ tpc = "receive"
    /\ Ends("receive", "returned")
    /\ UNCHANGED <<kind, servers, cycle, connected, interface, step, attempts,
                   done, sent, calls, callVars, frameVars, tcpVars>>

\* recv() raises socket.error: logged and raised again.
TcpReceiveError ==
    /\ tpc = "receive"
    /\ Ends("receive", "socket.error")
    /\ UNCHANGED <<kind, servers, cycle, connected, interface, step, attempts,
                   done, sent, calls, callVars, frameVars, tcpVars>>

\* UDP.start: a datagram socket is made.
UdpStart ==
    /\ kind = "UDP" /\ tpc = "idle" /\ calls < MaxCalls
    /\ calls' = calls + 1
    /\ interface' = "open"
    /\ Ends("start", "returned")
    /\ UNCHANGED <<kind, servers, cycle, connected, step, attempts, done, sent,
                   callVars, frameVars, tcpVars>>

\* receive() on a UDP transport: UDP defines none, so APRS.receive runs: pass.
UdpReceive ==
    /\ kind = "UDP" /\ tpc = "idle" /\ calls < MaxCalls
    /\ calls' = calls + 1
    /\ Ends("receive", "returned")
    /\ UNCHANGED <<kind, servers, cycle, connected, interface, step, attempts,
                   done, sent, callVars, frameVars, tcpVars>>

NextNet ==
    \/ TcpStartCall \/ TcpStartReturn \/ TcpStartNext \/ TcpStartStep
    \/ TcpStartFail \/ TcpSleep \/ NoSocket \/ Send \/ SendFail
    \/ TcpReceiveCall \/ TcpReceiveClosed \/ TcpReceiveError
    \/ UdpStart \/ UdpReceive

SpecNet == InitNet /\ [][NextNet]_vars

---------------------------------------------------------------------------
(* Claims about the transports, checked under SpecNet.                     *)

\* The entry of the server list that attempt k of a start() call is to target.
RoundRobin(k) == TCP_target(servers[((k - 1) % Len(servers)) + 1])

InStart == tpc \in {"while", "try", "sleep"}

\* C11: attempt k of a start() call targets entry (k-1) mod n of the server
\* list; a failed attempt is followed by the while test and, from there, by
\* an attempt on the next entry; start() ends only by returning, and only
\* with the transport connected.
C11_RoundRobinRetry ==
    /\ [](\A k \in 1..Len(attempts) : attempts[k] = RoundRobin(k))
    /\ []((kind = "TCP" /\ result.op = "start") =>
              (result.outcome = "returned" /\ connected))
    /\ [][tpc = "sleep" => (tpc' = "while" /\ ~connected')]_vars
    /\ [][(tpc = "while" /\ ~connected) =>
              (tpc' = "try" /\ attempts' = Append(attempts, RoundRobin(Len(attempts) + 1)))]_vars
    /\ [][(InStart /\ tpc' = "idle") => connected]_vars

\* Two failures on a list of two entries: the third attempt is on the first
\* entry again, and succeeds.
C11_Witness ==
    /\ result = [op |-> "start", outcome |-> "returned"] /\ connected
    /\ Len(servers) = 2 /\ servers[1] # servers[2]
    /\ Len(attempts) = 3 /\ attempts[3] = attempts[1] /\ attempts[2] # attempts[1]

\* C12: a send() or receive() of a TCP transport that ended with
\* socket.error leaves the transport not connected.
C12_ErrorDisconnects ==
    (kind = "TCP" /\ tpc = "idle" /\ result.outcome = "socket.error") => ~connected

\* C13: every message a TCP transport has written ends with CR then LF.
C13_CRLFTerminated ==
    kind = "TCP" => \A i \in 1..Len(sent) : EndsWithCRLF(sent[i])

\* C15: after a failed connection attempt, and after receive() has returned
\* or raised, the transport holds no open socket.
C15_SocketReleased ==
    (kind = "TCP" /\ (tpc = "sleep" \/ (tpc = "idle" /\ result.op = "receive"))) =>
        interface # "open"

\* C16: receive() called on a UDP transport does not return normally.
C16_UDPReceiveRejected ==
    (kind = "UDP" /\ result.op = "receive") => result.outcome # "returned"

\* C17: the steps done on an attempt's socket are, in order, open, connect,
\* read, send the login line, read, mark connected; the transport is
\* connected only when all of them are done, the login line written, and it is
\* not connected after a failed attempt.
C17_HandshakeOrder ==
    LET order == <<"getaddrinfo", "socket", "connect", "recv", "sendall", "recv",
                   "connected">>
    IN  /\ Len(done) <= Len(order) /\ done = SubSeq(order, 1, Len(done))
        /\ connected =>
              /\ done = order
              /\ sent # <<>> /\ \E i \in 1..Len(sent) : sent[i] = TCP_login
        /\ tpc = "sleep" => ~connected

\* A first attempt that failed after its login line was sent, a second that
\* succeeded.
C17_Witness ==
    /\ connected /\ result = [op |-> "start", outcome |-> "returned"]
    /\ Len(attempts) = 2 /\ Len(sent) = 2 /\ calls = 1

=============================================================================
